---- MODULE Spec2Model ----
(***************************************************************************)
(* Order-entry demo: the Express server's in-memory order Registry         *)
(* (server.js: POST /api/order, GET /api/orders, DELETE /api/orders) and   *)
(* the validation the OrderForm applies before it issues a create request, *)
(* and the browser side: the OrderStore (fetchOrders, submitOrder, the      *)
(* isLoading flag), the OrderPage that fetches on mount and the OrderForm's *)
(* submit cycle.                                                            *)
(*                                                                         *)
(* JSON values are records [k, s, n, m]: k is the JavaScript type, s the   *)
(* text of a string, n and m its numeric parts.  Numbers are exact         *)
(* decimals counted in hundredths (the form's step is 0.01), so 1 is       *)
(* Num(100) and 1.5 is Num(150).  An absent object key is Undef.           *)
(***************************************************************************)
EXTENDS Integers, Sequences, FiniteSets, Bags, TLC

\* ---------------------------------------------------------------- bounds
MaxOrders == 2      \* the Registry accepts no order beyond this length
MaxClock == 1       \* the server clock runs over 0..MaxClock milliseconds
MaxInFlight == 2    \* calls of the Client Store awaiting their fetch() at one time

\* hundredths in one unit: <input step="0.01">
Hundredths == 100

\* ------------------------------------------------------------ JSON values
Undef == [k |-> "undefined", s |-> "", n |-> 0, m |-> 0]
Null == [k |-> "null", s |-> "", n |-> 0, m |-> 0]
NaN == [k |-> "NaN", s |-> "", n |-> 0, m |-> 0]
Str(s) == [k |-> "string", s |-> s, n |-> 0, m |-> 0]
Num(n) == [k |-> "number", s |-> "", n |-> n, m |-> 0]
Bool(b) == [k |-> "boolean", s |-> "", n |-> IF b THEN 1 ELSE 0, m |-> 0]

\* JavaScript ToBoolean, the test behind `!x`
Truthy(v) ==
    CASE v.k = "undefined" -> FALSE
      [] v.k = "null" -> FALSE
      [] v.k = "NaN" -> FALSE
      [] v.k = "number" -> v.n # 0
      [] v.k = "boolean" -> v.n = 1
      [] v.k = "string" -> ~(v.s = "" /\ v.n = 0 /\ v.m = 0)
      [] OTHER -> TRUE

\* new Date(t).toISOString(): one string per millisecond
toISOString(t) == [k |-> "string", s |-> "iso", n |-> t, m |-> 0]

\* `order_${Date.now()}_${Math.random().toString(36).substr(2, 9)}`
\* (a string made of the clock's value t and a random suffix)
generateId(t, suffix) == [k |-> "string", s |-> suffix, n |-> t, m |-> 1]

\* outcomes of Math.random().toString(36).substr(2, 9)
RandomSuffixes == {"order_k3j9x0a2b", "order_q7w1e5r8t"}

\* `Cleared ${count} orders`
ClearedMessage(count) == [k |-> "string", s |-> "Cleared_orders", n |-> count, m |-> 0]

\* --------------------------------------------------------------- objects
Fields == {"id", "symbol", "orderType", "quantity", "price", "stopPrice", "side", "timestamp"}

EmptyObject == [f \in Fields |-> Undef]

\* {...a, ...b}: every key present in b replaces a's
Spread(a, b) == [f \in Fields |-> IF b[f] # Undef THEN b[f] ELSE a[f]]

\* JSON.stringify of one value: NaN becomes null
StringifyValue(v) == IF v.k = "NaN" THEN Null ELSE v

\* JSON.stringify(orderData) followed by express.json() on the server
Stringify(obj) == [f \in Fields |-> StringifyValue(obj[f])]

Body(symbol, orderType, quantity, side, price, stopPrice) ==
    [EmptyObject EXCEPT !.symbol = symbol, !.orderType = orderType,
                        !.quantity = quantity, !.side = side,
                        !.price = price, !.stopPrice = stopPrice]

\* ------------------------------------------------- the Order vocabulary
NIFTY == Str("NIFTY")
TCS == Str("TCS")
RELIANCE == Str("RELIANCE")
Market == Str("Market")
Limit == Str("Limit")
StopLimit == Str("Stop Limit")
Buy == Str("Buy")
Sell == Str("Sell")

OrderTypes == {Market, Limit, StopLimit}

\* ------------------------------------------- requests sent to the endpoint
\* Bodies a client may POST directly (curl, another program): any JSON
\* object.  The set covers each required field absent or falsy, quantities
\* that are no positive integer, a Limit order without its price, and a
\* body that carries its own id and timestamp.
MarketBody == Body(NIFTY, Market, Num(10 * Hundredths), Buy, Undef, Undef)

AcceptableBodies ==
    { MarketBody,
      Body(TCS, Limit, Num(5 * Hundredths), Sell, Undef, Undef),
      [MarketBody EXCEPT !.quantity = Num(0 - Hundredths)],
      [MarketBody EXCEPT !.quantity = Num(Hundredths + 50)],
      [MarketBody EXCEPT !.id = Str("dup"), !.timestamp = Str("1999-12-31T00:00:00.000Z")] }

IncompleteBodies ==
    { [MarketBody EXCEPT !.symbol = Undef],
      [MarketBody EXCEPT !.orderType = Undef],
      [MarketBody EXCEPT !.quantity = Undef],
      [MarketBody EXCEPT !.side = Undef],
      [MarketBody EXCEPT !.symbol = Str("")],
      [MarketBody EXCEPT !.quantity = Num(0)] }

Bodies == AcceptableBodies \cup IncompleteBodies

\* what a client that goes round the OrderForm sends, next to the form's requests
BypassBodies ==
    { Body(TCS, Limit, Num(5 * Hundredths), Sell, Undef, Undef),
      [MarketBody EXCEPT !.side = Undef] }

\* --------------------------------------------------------- the OrderForm
\* Values react-hook-form hands to onSubmit: quantity, price and stopPrice
\* are read valueAsNumber (NaN for an empty input); price and stopPrice are
\* undefined until their input has been shown once.
FormValues ==
    { Body(NIFTY, t, q, Buy, p, s) :
        t \in OrderTypes,
        q \in {NaN, Num(0), Num(Hundredths)},
        p \in {Undef, Num(0), Num(3500 * Hundredths)},
        s \in {Undef, Num(3400 * Hundredths)} }

\* the price input is rendered (and validated) for Limit and Stop Limit
PriceShown(data) == data.orderType = Limit \/ data.orderType = StopLimit

\* the stop-price input is rendered (and validated) for Stop Limit
StopPriceShown(data) == data.orderType = StopLimit

\* register(..., {required}) on a value: an empty input fails
Filled(v) == v.k = "number" \/ (v.k = "string" /\ v.s # "")

\* register(..., {min: {value: lo}}) with valueAsNumber
AtLeast(v, lo) == v.k = "number" /\ v.n >= lo

\* minimum of the quantity input: min: { value: 1 }
MinQuantity == 1 * Hundredths

\* minimum of the price inputs: min: { value: 0.01 }
MinPrice == 1

\* mutant: the price input is registered without `required` and `min`
FormValidPriceUnchecked(data) ==
    /\ Filled(data.symbol)
    /\ Filled(data.orderType)
    /\ Filled(data.quantity) /\ AtLeast(data.quantity, MinQuantity)
    /\ StopPriceShown(data) => (Filled(data.stopPrice) /\ AtLeast(data.stopPrice, MinPrice))
    /\ Filled(data.side)

\* handleSubmit(onSubmit) calls onSubmit only if every rendered field passes
FormValid(data) ==
    /\ Filled(data.symbol)
    /\ Filled(data.orderType)
    /\ Filled(data.quantity) /\ AtLeast(data.quantity, MinQuantity)
    /\ PriceShown(data) => (Filled(data.price) /\ AtLeast(data.price, MinPrice))
    /\ StopPriceShown(data) => (Filled(data.stopPrice) /\ AtLeast(data.stopPrice, MinPrice))
    /\ Filled(data.side)

\* ------------------------------------------------------------ the server
VARIABLES
    orders,     \* server.js `let orders = []`: the Registry
    now,        \* the server's clock, Date.now()
    req,        \* the request the server handled last
    resp,       \* the response it sent to that request
    accepted    \* history: the create requests accepted since the Registry was last empty

\* ------------------------------------------------------------ the browser
VARIABLES
    storeOrders,    \* OrderStore.orders: the Client Store's local list
    isLoading,      \* OrderStore.isLoading: the busy flag
    calls,          \* the fetchOrders() and submitOrder() calls awaiting their fetch(): a bag
    settled,        \* the call that returned last: how it resumed, what its promise settled to
    mounted,        \* OrderPage, and the OrderForm in it, has been rendered
    fields,         \* the OrderForm's field values (react-hook-form)
    errors,         \* formState.errors: the fields whose rule failed at the last submit
    successMessage, \* the OrderForm's message state
    timers          \* setTimeout callbacks of the OrderForm on screen not yet run

serverVars == <<orders, now, req, resp, accepted>>

clientVars ==
    <<storeOrders, isLoading, calls, settled, mounted, fields, errors, successMessage,
      timers>>

vars == <<orders, now, req, resp, accepted,
          storeOrders, isLoading, calls, settled, mounted, fields, errors, successMessage,
          timers>>

NoRequest == [op |-> "none", client |-> "none", body |-> EmptyObject]

Response(status, success) ==
    [status |-> status, success |-> success, error |-> "", order |-> EmptyObject,
     orders |-> <<>>, count |-> -1, message |-> Undef]

NoResponse == Response(0, FALSE)

\* mutant: the test forgets `!orderData.side`
HasRequiredFieldsButSide(orderData) ==
    /\ Truthy(orderData.symbol)
    /\ Truthy(orderData.orderType)
    /\ Truthy(orderData.quantity)

\* mutant: the test forgets `!orderData.quantity`
HasRequiredFieldsButQuantity(orderData) ==
    /\ Truthy(orderData.symbol)
    /\ Truthy(orderData.orderType)
    /\ Truthy(orderData.side)

\* mutant: the test asks `=== undefined` of each field
HasRequiredFieldsDefined(orderData) ==
    /\ orderData.symbol # Undef
    /\ orderData.orderType # Undef
    /\ orderData.quantity # Undef
    /\ orderData.side # Undef

\* the test of line 159 passes: all four required fields are truthy
HasRequiredFields(orderData) ==
    /\ Truthy(orderData.symbol)
    /\ Truthy(orderData.orderType)
    /\ Truthy(orderData.quantity)
    /\ Truthy(orderData.side)

\* res.status(400).json({success: false, error: "Missing required fields"})
BadRequest == [Response(400, FALSE) EXCEPT !.error = "Missing required fields"]

\* mutant: { id, timestamp, ...orderData }, the request spread last
NewOrderSpreadLast(id, orderData, timestamp) ==
    Spread([EmptyObject EXCEPT !.id = id, !.timestamp = timestamp], orderData)

\* { id: generateId(), ...orderData, timestamp: new Date().toISOString() }
NewOrder(id, orderData, timestamp) ==
    [Spread([EmptyObject EXCEPT !.id = id], orderData) EXCEPT !.timestamp = timestamp]

\* mutant: orders.unshift(order)
Unshift(list, order) == <<order>> \o list

\* orders.push(order)
Push(list, order) == Append(list, order)

\* res.status(201).json({success: true, order: order})
Created(order) == [Response(201, TRUE) EXCEPT !.order = order]

Reverse(list) == [i \in 1..Len(list) |-> list[Len(list) + 1 - i]]

\* mutant: the newest order first
ListResponseNewestFirst(list) ==
    [Response(200, TRUE) EXCEPT !.orders = Reverse(list), !.count = Len(list)]

\* res.status(200).json({success: true, orders: orders, count: orders.length})
ListResponse(list) == [Response(200, TRUE) EXCEPT !.orders = list, !.count = Len(list)]

\* mutant: the count is read after the Registry was emptied
ClearResponseCountedAfter(list) ==
    [Response(200, TRUE) EXCEPT !.message = ClearedMessage(0)]

\* const count = orders.length; orders = []; ... message: `Cleared ${count} orders`
ClearResponse(list) == [Response(200, TRUE) EXCEPT !.message = ClearedMessage(Len(list))]

\* mutant: orders.pop()
PoppedLast(list) == IF list = <<>> THEN <<>> ELSE SubSeq(list, 1, Len(list) - 1)

\* orders = []
Emptied(list) == <<>>

\* useForm({ defaultValues }): price and stopPrice have no default
defaultValues == Body(NIFTY, Market, Num(1 * Hundredths), Buy, Undef, Undef)

\* no call has returned yet
NoCall == [kind |-> "none", origin |-> "none", delivered |-> FALSE, result |-> "none"]

\* server.js after `let orders = []`, before the first request
InitServer ==
    /\ orders = <<>>
    /\ now = 0
    /\ req = NoRequest
    /\ resp = NoResponse
    /\ accepted = <<>>

\* new OrderStore(): no order, not loading, nothing awaited
InitStore ==
    /\ storeOrders = <<>>
    /\ isLoading = FALSE
    /\ calls = EmptyBag
    /\ settled = NoCall

\* useForm({defaultValues}) and useState(""): the OrderForm holding `values`
InitOrderForm(values) ==
    /\ mounted = FALSE
    /\ fields = values
    /\ errors = {}
    /\ successMessage = ""
    /\ timers = 0

Init == InitServer /\ InitStore /\ InitOrderForm(defaultValues)

\* time passes on the server
Tick ==
    /\ now < MaxClock
    /\ now' = now + 1
    /\ UNCHANGED <<orders, req, resp, accepted>>
    /\ UNCHANGED clientVars

\* server.post("/api/order"): the whole handler for one request.  The handler
\* runs without interruption, so generateId's Date.now() and new Date() are
\* read at the same instant.  express.json() always leaves an object in
\* req.body, so the catch branch (status 500) is never taken.  The code puts
\* no limit on the Registry; MaxOrders is the model's.
PostOrder(client, orderData) ==
    /\ req' = [op |-> "create", client |-> client, body |-> orderData]
    /\ IF ~HasRequiredFields(orderData)
       THEN /\ resp' = BadRequest
            /\ UNCHANGED <<orders, now, accepted>>
       ELSE /\ Len(orders) < MaxOrders
            /\ \E suffix \in RandomSuffixes :
                 LET id == generateId(now, suffix)
                     order == NewOrder(id, orderData, toISOString(now))
                 IN /\ orders' = Push(orders, order)
                    /\ resp' = Created(order)
                    /\ accepted' = Append(accepted,
                          [client |-> client, body |-> orderData, generated |-> id])
            /\ UNCHANGED now

\* a create request from any program that is not the OrderForm
DirectCreate ==
    /\ \E orderData \in Bodies : PostOrder("direct", orderData)
    /\ UNCHANGED clientVars

\* a create request the OrderForm issues: handleSubmit validates, submitOrder
\* posts JSON.stringify(data)
FormCreate ==
    /\ \E data \in FormValues : FormValid(data) /\ PostOrder("form", Stringify(data))
    /\ UNCHANGED clientVars

\* server.get("/api/orders"): the whole handler for one request
ListOrders(client) ==
    /\ req' = [op |-> "list", client |-> client, body |-> EmptyObject]
    /\ resp' = ListResponse(orders)
    /\ UNCHANGED <<orders, now, accepted>>

\* a list request from any program that is not the browser
GetOrders == ListOrders("direct") /\ UNCHANGED clientVars

\* server.delete("/api/orders")
DeleteOrders ==
    /\ req' = [op |-> "clear", client |-> "direct", body |-> EmptyObject]
    /\ resp' = ClearResponse(orders)
    /\ orders' = Emptied(orders)
    /\ accepted' = <<>>
    /\ UNCHANGED now
    /\ UNCHANGED clientVars

\* the server under clients that post any body
Next == Tick \/ DirectCreate \/ GetOrders \/ DeleteOrders

Spec == Init /\ [][Next]_vars

\* a create request that goes round the OrderForm
BypassCreate ==
    /\ \E orderData \in BypassBodies : PostOrder("direct", orderData)
    /\ UNCHANGED clientVars

\* the server under the OrderForm and a client that goes round it
NextForm == Tick \/ FormCreate \/ BypassCreate \/ GetOrders \/ DeleteOrders

SpecForm == Init /\ [][NextForm]_vars

\* ------------------------------------------------------ the Client Store
\* fetchOrders() or submitOrder() suspended at `await fetch(...)`: the request
\* is sent, then answered by the server; origin is who called the store
Call(kind, origin, body) ==
    [kind |-> kind, origin |-> origin, body |-> body, stage |-> "sent",
     response |-> NoResponse, live |-> TRUE]

\* the OrderForm that awaits the call is unmounted: what is left of its
\* onSubmit acts on a component that is no longer on screen
Detach(call) == IF call.origin = "form" THEN [call EXCEPT !.live = FALSE] ELSE call

Copies(bag, call) == IF call \in BagToSet(bag) THEN CopiesIn(call, bag) ELSE 0

Detached(bag) ==
    [d \in { Detach(c) : c \in BagToSet(bag) } |->
        IF d.origin = "form"
        THEN Copies(bag, d) + Copies(bag, [d EXCEPT !.live = TRUE])
        ELSE Copies(bag, d)]

\* the calls in flight are unordered: one more, one less
Issued(bag, call) == bag (+) SetToBag({call})

\* mutant: a submit answered with a status that is not ok is sent again
ReturnedOrSentAgain(bag, call) ==
    IF call.kind = "submitOrder" /\ call.stage = "answered" /\ ~(call.response.status = 201)
    THEN Issued(bag (-) SetToBag({call}),
                [call EXCEPT !.stage = "sent", !.response = NoResponse])
    ELSE bag (-) SetToBag({call})

Returned(bag, call) == bag (-) SetToBag({call})

InFlight == BagCardinality(calls)

\* response.ok: the status is in the range 200-299
Ok(response) == response.status >= 200 /\ response.status <= 299

\* mutant: this.orders.unshift(order)
addOrderFirst(list, order) == <<order>> \o list

\* addOrder(order): this.orders.push(order)
addOrder(list, order) == Append(list, order)

\* mutant: this.orders.push(...orders)
setOrdersAppending(list, new) == list \o new

\* mutant: this.orders.pop()
clearOrdersLast(list) == SubSeq(list, 1, Len(list) - 1)

\* clearOrders(): this.orders = []
clearOrders(list) == <<>>

\* mutant: a list that already holds orders is kept
setOrdersIfEmpty(list, new) == IF list = <<>> THEN new ELSE list

\* setOrders(orders): this.orders = orders
setOrders(list, new) == new

\* mutant: `this.setOrders(data.orders || [])` placed in the finally block
fetchOrdersLeavesEmptyOnFailure(list, call, delivered) ==
    IF delivered /\ Ok(call.response)
    THEN setOrders(list, call.response.orders)
    ELSE <<>>

\* the local list fetchOrders leaves: replaced if the response arrived, was
\* ok and parsed (delivered), else as it was (`data.orders` is always an
\* array in the server's answer, so `|| []` never applies)
fetchOrdersLeaves(list, call, delivered) ==
    IF delivered /\ Ok(call.response)
    THEN setOrders(list, call.response.orders)
    ELSE list

\* what the promise of fetchOrders settles to: the catch block logs and
\* swallows the error, so it is fulfilled with undefined on every path
fetchOrdersSettles(call, delivered) == "undefined"

\* mutant: submitOrder without the `if (response.ok)` test
submitOrderLeavesUnchecked(list, call, delivered) ==
    IF delivered THEN addOrder(list, call.response.order) ELSE list

\* the local list submitOrder leaves: data.order appended if the response
\* arrived, was ok and parsed, else as it was
submitOrderLeaves(list, call, delivered) ==
    IF delivered /\ Ok(call.response)
    THEN addOrder(list, call.response.order)
    ELSE list

\* what the promise of submitOrder settles to: true after addOrder, false
\* after a status that is not ok and from the catch block
submitOrderSettles(call, delivered) ==
    IF delivered /\ Ok(call.response) THEN "true" ELSE "false"

\* mutant: setLoading(false) as the last statement of the try block
LoadingAtExitOfTry(loading, delivered) == IF delivered THEN FALSE ELSE loading

\* finally { this.setLoading(false) }
LoadingAtExit(loading, delivered) == FALSE

\* ------------------------------------------------ the OrderForm's state
\* formState.errors after handleSubmit validated `data`: the rendered fields
\* whose rule failed
FieldErrors(data) ==
    { f \in {"symbol", "orderType", "side"} : ~Filled(data[f]) }
    \cup { f \in {"quantity"} : ~(Filled(data.quantity) /\ AtLeast(data.quantity, MinQuantity)) }
    \cup { f \in {"price"} :
              PriceShown(data) /\ ~(Filled(data.price) /\ AtLeast(data.price, MinPrice)) }
    \cup { f \in {"stopPrice"} :
              StopPriceShown(data)
              /\ ~(Filled(data.stopPrice) /\ AtLeast(data.stopPrice, MinPrice)) }

SubmittedMessage == "Order submitted successfully!"

FailedMessage == "Failed to submit order. Please try again."

\* mutant: onSubmit without its reset() call
resetNothing(values) == values

\* reset(): every field back to defaultValues, the others emptied
reset(values) == defaultValues

\* onSubmit past `await orderStore.submitOrder(data)`: the message it sets
MessageAfter(result) == IF result = "true" THEN SubmittedMessage ELSE FailedMessage

\* ---------------------------------------------------- the browser's steps
\* the user opens /order, for the first time or again after a visit to the
\* home page: a new OrderForm is rendered with its initial state, the one
\* rendered before is gone, and the effect of OrderPage calls
\* orderStore.fetchOrders(), which runs up to `await fetch`
MountOrderPage ==
    /\ InFlight < MaxInFlight
    /\ mounted' = TRUE
    /\ fields' = defaultValues
    /\ errors' = {}
    /\ successMessage' = ""
    /\ timers' = 0
    /\ isLoading' = TRUE
    /\ calls' = Issued(Detached(calls), Call("fetchOrders", "page", EmptyObject))
    /\ UNCHANGED <<storeOrders, settled>>
    /\ UNCHANGED serverVars

\* submitOrder(orderData) up to `await fetch`: setLoading(true), then the
\* POST of JSON.stringify(orderData)
StartSubmitOrder(origin, orderData) ==
    /\ InFlight < MaxInFlight
    /\ isLoading' = TRUE
    /\ calls' = Issued(calls, Call("submitOrder", origin, Stringify(orderData)))

\* the user presses the submit button, which is disabled while isLoading:
\* handleSubmit validates the rendered fields and calls onSubmit(data) if
\* none failed; onSubmit runs up to `await orderStore.submitOrder(data)`
handleSubmit ==
    /\ mounted
    /\ ~isLoading
    /\ errors' = FieldErrors(fields)
    /\ IF FormValid(fields)
       THEN /\ successMessage' = ""
            /\ StartSubmitOrder("form", fields)
            /\ UNCHANGED <<storeOrders, settled, mounted, fields, timers>>
       ELSE UNCHANGED <<storeOrders, isLoading, calls, settled, mounted, fields,
                        successMessage, timers>>
    /\ UNCHANGED serverVars

\* what a caller hands to orderStore.submitOrder: an order the server
\* accepts, and one it rejects with status 400, which no valid form holds
CallerBodies == { MarketBody, [MarketBody EXCEPT !.quantity = Num(0)] }

\* some code calls orderStore.submitOrder(orderData), at any moment
CallSubmitOrder ==
    /\ \E orderData \in CallerBodies : StartSubmitOrder("caller", orderData)
    /\ UNCHANGED <<storeOrders, settled, mounted, fields, errors, successMessage, timers>>
    /\ UNCHANGED serverVars

\* the server handles the request of a call and answers it
Serve(call) ==
    /\ call.stage = "sent"
    /\ IF call.kind = "submitOrder"
       THEN PostOrder(call.origin, call.body)
       ELSE ListOrders(call.origin)
    /\ calls' = Issued(Returned(calls, call),
                       [call EXCEPT !.stage = "answered", !.response = resp'])
    /\ UNCHANGED <<storeOrders, isLoading, settled, mounted, fields, errors,
                   successMessage, timers>>

ServeCall == \E call \in BagToSet(calls) : Serve(call)

\* a call resumes after its await and runs to its end: with the parsed
\* response (delivered), or in its catch block because fetch() rejected or
\* response.json() threw.  A call of the OrderForm goes on, in the same
\* turn, with the rest of onSubmit, which shows if that form is still the
\* one on screen.
Return(call, delivered) ==
    LET result == IF call.kind = "submitOrder"
                  THEN submitOrderSettles(call, delivered)
                  ELSE fetchOrdersSettles(call, delivered)
    IN /\ delivered => call.stage = "answered"
       /\ storeOrders' = IF call.kind = "submitOrder"
                         THEN submitOrderLeaves(storeOrders, call, delivered)
                         ELSE fetchOrdersLeaves(storeOrders, call, delivered)
       /\ isLoading' = LoadingAtExit(isLoading, delivered)
       /\ calls' = Returned(calls, call)
       /\ settled' = [kind |-> call.kind, origin |-> call.origin,
                       delivered |-> delivered, result |-> result]
       /\ IF call.origin = "form" /\ call.live
          THEN /\ successMessage' = MessageAfter(result)
               /\ fields' = IF result = "true" THEN reset(fields) ELSE fields
               /\ errors' = IF result = "true" THEN {} ELSE errors
               /\ timers' = IF result = "true" THEN timers + 1 ELSE timers
          ELSE UNCHANGED <<fields, errors, successMessage, timers>>
       /\ UNCHANGED mounted
       /\ UNCHANGED serverVars

\* a response arrives and parses
Complete == \E call \in BagToSet(calls) : Return(call, TRUE)

\* a request or its response is lost, or the response does not parse
Fail == \E call \in BagToSet(calls) : Return(call, FALSE)

\* the user presses "Clear All Orders", which the OrderTable renders under
\* its rows, that is when the store is not loading and holds an order:
\* onClick={() => orderStore.clearOrders()}
ClickClearAll ==
    /\ mounted
    /\ ~isLoading
    /\ storeOrders # <<>>
    /\ storeOrders' = clearOrders(storeOrders)
    /\ UNCHANGED <<isLoading, calls, settled, mounted, fields, errors, successMessage,
                   timers>>
    /\ UNCHANGED serverVars

\* 3000 ms after a successful submit: () => setSuccessMessage("")
TimerFires ==
    /\ timers > 0
    /\ timers' = timers - 1
    /\ successMessage' = ""
    /\ UNCHANGED <<storeOrders, isLoading, calls, settled, mounted, fields, errors>>
    /\ UNCHANGED serverVars

\* the Client Store against the server, its two methods called at any
\* moment: whatever holds here holds of the store under the page and the
\* OrderForm, which call it at some moments only
NextStore == MountOrderPage \/ CallSubmitOrder \/ ServeCall \/ Complete \/ Fail

SpecStore == Init /\ [][NextStore]_vars

\* every call that was issued returns
SpecStoreLive == SpecStore /\ WF_vars(ServeCall) /\ WF_vars(Complete \/ Fail)

\* the browser as the user drives it: the page, opened any number of
\* times, the OrderForm left at its default values, and the OrderTable's
\* clear button
NextPage ==
    MountOrderPage \/ handleSubmit \/ ClickClearAll \/ TimerFires
        \/ ServeCall \/ Complete \/ Fail

SpecPage == Init /\ [][NextPage]_vars

\* /order has loaded, its fetchOrders() has returned the empty Registry, and
\* the user has typed `values` into the OrderForm
InitTyped ==
    /\ orders = <<>> /\ now = 0 /\ accepted = <<>>
    /\ req = [op |-> "list", client |-> "page", body |-> EmptyObject]
    /\ resp = ListResponse(<<>>)
    /\ storeOrders = <<>> /\ isLoading = FALSE /\ calls = EmptyBag
    /\ settled = [kind |-> "fetchOrders", origin |-> "page", delivered |-> TRUE,
                  result |-> "undefined"]
    /\ mounted = TRUE /\ errors = {} /\ successMessage = "" /\ timers = 0
    /\ \E values \in FormValues : fields = values

NextOrderForm == handleSubmit \/ ServeCall \/ Complete \/ Fail \/ TimerFires

SpecOrderForm == InitTyped /\ [][NextOrderForm]_vars

\* a create request of another client of the same server
OtherCreate ==
    /\ \E orderData \in CallerBodies : PostOrder("direct", orderData)
    /\ UNCHANGED clientVars

\* the page in one browser beside another client of the same server, which
\* creates orders and clears the Registry (curl -X DELETE .../api/orders);
\* the user of the page looks at the table and does not submit
NextShared ==
    MountOrderPage \/ ClickClearAll \/ ServeCall \/ Complete \/ Fail
        \/ OtherCreate \/ DeleteOrders

SpecShared == Init /\ [][NextShared]_vars

\* ================================================================ claims
Last(list) == list[Len(list)]

RequestFields == {"symbol", "orderType", "quantity", "side", "price", "stopPrice"}

RequiredFields == {"symbol", "orderType", "quantity", "side"}

\* the key is in the JSON and holds a value
Present(v) == v.k # "undefined" /\ v.k # "null"

\* ---------------------------------------------------------------- C1
\* C1: when the Registry was empty and N create requests were accepted since,
\* with no clear, a list returns exactly N orders, the i-th carrying the
\* symbol, orderType, quantity, side, price and stopPrice of the i-th accepted
\* request; id and timestamp are what the server added.
C1_ListReturnsAcceptedInOrder ==
    req.op = "list" =>
        /\ Len(resp.orders) = Len(accepted)
        /\ \A i \in 1..Len(accepted) :
              /\ \A f \in RequestFields : resp.orders[i][f] = accepted[i].body[f]
              /\ resp.orders[i].timestamp # Undef

\* two different accepted requests, then a list
C1_Witness ==
    /\ req.op = "list"
    /\ Len(accepted) = 2
    /\ accepted[1].body.symbol # accepted[2].body.symbol
    /\ Len(resp.orders) = 2

\* ---------------------------------------------------------------- C2
\* C2: no two orders returned by accepted create requests have the same id.
\* Stated for the orders the Registry holds, each of them returned by an
\* accepted create of this process (the claim also covers those cleared since).
C2_NoTwoOrdersShareAnId ==
    \A i, j \in 1..Len(orders) : i # j => orders[i].id # orders[j].id

\* ---------------------------------------------------------------- C3
\* C3: the id of every stored and returned order is the value generateId
\* produced for its request, whatever the request body holds.
C3_StoredIdIsTheGeneratedOne ==
    /\ \A i \in 1..Len(orders) : orders[i].id = accepted[i].generated
    /\ (req.op = "create" /\ resp.status = 201) => resp.order.id = Last(accepted).generated

\* ---------------------------------------------------------------- C4
\* C4: the order an accepted create stores and returns carries the server's
\* time at acceptance as its timestamp, whatever timestamp the body holds, and
\* no later step changes the timestamp of an order in the Registry.
C4_TimestampIsServerTime ==
    [][ /\ Len(orders') = Len(orders) + 1 =>
              /\ Last(orders').timestamp = toISOString(now')
              /\ resp'.order = Last(orders')
        /\ \A i \in 1..Len(orders) :
              i <= Len(orders') => orders'[i].timestamp = orders[i].timestamp ]_vars

\* an accepted request whose body brought another timestamp
C4_Witness ==
    /\ req.op = "create"
    /\ resp.status = 201
    /\ req.body.timestamp # Undef
    /\ resp.order.timestamp # req.body.timestamp
    /\ Last(orders).timestamp = resp.order.timestamp

\* ---------------------------------------------------------------- C5
\* C5: a create request that lacks symbol, orderType, quantity or side is
\* answered 400 {success: false, error: "Missing required fields"} and leaves
\* the Registry and the rest of the server's state as they were, so that the
\* requests that follow are served as if it had not been sent.
C5_MissingFieldIsRejected ==
    [][ (req'.op = "create" /\ \E f \in RequiredFields : req'.body[f] = Undef) =>
            /\ resp'.status = 400
            /\ resp'.success = FALSE
            /\ resp'.error = "Missing required fields"
            /\ resp'.order = EmptyObject
            /\ orders' = orders
            /\ accepted' = accepted ]_vars

\* a request without side, rejected while the Registry holds an order
C5_Witness ==
    /\ req.op = "create"
    /\ req.body.side = Undef
    /\ req.body.symbol # Undef /\ req.body.orderType # Undef /\ req.body.quantity # Undef
    /\ resp.status = 400
    /\ Len(orders) >= 1

\* ---------------------------------------------------------------- C6
\* the conditional-requirement rule on one order
PriceRule(order) ==
    /\ (order.orderType = Limit \/ order.orderType = StopLimit) => Present(order.price)
    /\ order.orderType = StopLimit => Present(order.stopPrice)

\* C6 as stated: every order in the Registry satisfies the
\* conditional-requirement rule, whatever client sent it.
C6_EveryOrderMeetsThePriceRule ==
    \A i \in 1..Len(orders) : PriceRule(orders[i])

\* C6 amended: every order in the Registry that was created by a request of
\* the OrderForm satisfies the conditional-requirement rule (the server checks
\* no price, so an order posted round the form need not).
C6_FormOrdersMeetThePriceRule ==
    \A i \in 1..Len(orders) : accepted[i].client = "form" => PriceRule(orders[i])

\* a Stop Limit order of the form next to a direct order that breaks the rule
C6_Witness ==
    \E i, j \in 1..Len(orders) :
        /\ accepted[i].client = "form"
        /\ orders[i].orderType = StopLimit
        /\ accepted[j].client = "direct"
        /\ ~PriceRule(orders[j])

\* ---------------------------------------------------------------- C7
\* C7 as stated: every order in the Registry has a quantity that is an
\* integer greater than or equal to 1.
C7_QuantityIsAPositiveInteger ==
    \A i \in 1..Len(orders) :
        /\ orders[i].quantity.k = "number"
        /\ orders[i].quantity.n >= Hundredths
        /\ orders[i].quantity.n % Hundredths = 0

\* C7 amended: every order in the Registry has a quantity that is present and
\* not falsy (not 0, not null, not false, not the empty string); the server
\* checks neither its type nor its range.
C7_QuantityIsPresentAndNotFalsy ==
    \A i \in 1..Len(orders) :
        /\ Present(orders[i].quantity)
        /\ orders[i].quantity # Num(0)
        /\ orders[i].quantity # Str("")
        /\ orders[i].quantity # Bool(FALSE)

\* the Registry holds a negative quantity and a fractional one
C7_Witness ==
    \E i, j \in 1..Len(orders) :
        /\ orders[i].quantity.k = "number" /\ orders[i].quantity.n < 0
        /\ orders[j].quantity.k = "number" /\ orders[j].quantity.n % Hundredths # 0

\* ---------------------------------------------------------------- C8
\* C8: every step that changes the Registry either is an accepted create that
\* appends one order at the tail, leaving the orders before it as they were
\* and in their order, or is a clear that empties it.
C8_AppendOrEmptyOnly ==
    [][ \/ orders' = orders
        \/ /\ req'.op = "create" /\ resp'.status = 201
           /\ Len(orders') = Len(orders) + 1
           /\ SubSeq(orders', 1, Len(orders)) = orders
           /\ Last(orders') = resp'.order
        \/ /\ req'.op = "clear"
           /\ orders' = <<>> ]_vars

\* an order appended behind another one
C8_Witness ==
    /\ req.op = "create"
    /\ resp.status = 201
    /\ Len(orders) = 2
    /\ orders[1] # orders[2]
    /\ orders[2] = resp.order

\* ---------------------------------------------------------------- C9
\* C9: a list answers 200 with every order of the Registry in insertion order
\* and count equal to the number of orders returned, leaves the Registry as it
\* was, and a list that follows a list (no create or clear between them,
\* whichever client sent them) returns the same response.
C9_ListIsFaithfulAndIdempotent ==
    [][ req'.op = "list" =>
            /\ resp'.status = 200
            /\ resp'.orders = orders
            /\ resp'.count = Len(resp'.orders)
            /\ orders' = orders
            /\ req.op = "list" => resp' = resp ]_vars

\* a list of a Registry of two different orders
C9_Witness ==
    /\ req.op = "list"
    /\ resp.count >= 2
    /\ resp.orders[1] # resp.orders[2]
    /\ resp.orders = orders

\* ---------------------------------------------------------------- C10
\* C10: a clear empties the Registry and its message is "Cleared N orders"
\* with N the number of orders held right before; a list with no accepted
\* create since the last clear returns no order and count 0.
C10_ClearEmptiesAndReportsCount ==
    [][ /\ req'.op = "clear" => orders' = <<>> /\ resp'.status = 200
        /\ (req'.op = "clear" /\ now' = now) => resp'.message = ClearedMessage(Len(orders))
        /\ (req'.op = "list" /\ accepted' = <<>>) =>
              resp'.orders = <<>> /\ resp'.count = 0 ]_vars

\* a clear of a Registry of two orders
C10_Witness ==
    /\ req.op = "clear"
    /\ resp.message = ClearedMessage(2)
    /\ orders = <<>>

\* ---------------------------------------------------------------- C11
\* two toISOString() strings compare as their instants do
NotAfter(a, b) == a.k = "string" /\ a.s = "iso" /\ b.k = "string" /\ b.s = "iso" /\ a.n <= b.n

Returns(c, kind) == c.kind = kind /\ calls' = Returned(calls, c)

\* C12: when a submit succeeds (its promise resolves to true), the call had
\* the server's 201 answer, the local list becomes the list as it was at
\* that moment with exactly the answer's order appended at its tail, and a
\* call that resumes with an ok answer always succeeds.
C12_SubmitSuccessAppendsReturnedOrder ==
    [][\A c \in BagToSet(calls) : Returns(c, "submitOrder") =>
          /\ settled'.result = "true" =>
                /\ c.stage = "answered" /\ c.response.status = 201
                /\ storeOrders' = Append(storeOrders, c.response.order)
          /\ (settled'.delivered /\ Ok(c.response)) => settled'.result = "true"]_vars

C12_Witness ==
    /\ settled.kind = "submitOrder" /\ settled.result = "true"
    /\ Len(storeOrders) = 2
    /\ storeOrders[1] # storeOrders[2]
    /\ req.op = "create" /\ resp.status = 201 /\ Last(storeOrders) = resp.order

\* ---------------------------------------------------------------- C13
\* C13: a submit whose answer has a non-success status, or whose request
\* fails or whose answer does not parse, resolves to false, and a submit
\* that resolves to false leaves the local list as it was.
C13_SubmitFailureLeavesList ==
    [][\A c \in BagToSet(calls) : Returns(c, "submitOrder") =>
          /\ (~settled'.delivered \/ ~Ok(c.response)) => settled'.result = "false"
          /\ settled'.result = "false" => storeOrders' = storeOrders]_vars

\* a submit answered with status 400 has returned false to a non-empty list
C13_Witness ==
    /\ settled.kind = "submitOrder" /\ settled.delivered /\ settled.result = "false"
    /\ storeOrders # <<>>

\* ---------------------------------------------------------------- C14
\* C14: a fetchAll that fails (request lost, answer not parsed, non-success
\* status) leaves the local list as it was, and its promise is fulfilled all
\* the same: the failure is not passed on to the caller.
C14_FetchFailureLeavesList ==
    [][\A c \in BagToSet(calls) : Returns(c, "fetchOrders") =>
          /\ settled'.result = "undefined"
          /\ (~settled'.delivered \/ ~Ok(c.response)) => storeOrders' = storeOrders]_vars

C14_Witness ==
    /\ settled.kind = "fetchOrders" /\ ~settled.delivered
    /\ storeOrders # <<>>

\* ---------------------------------------------------------------- C15
\* C15: a fetchAll that succeeds replaces the local list by the list of the
\* answer, whatever it held; if the Registry has not been touched since the
\* server answered (as after a page load with no other activity), the local
\* list then equals the Registry's list.
C15_FetchSuccessReplacesList ==
    [][\A c \in BagToSet(calls) :
          (Returns(c, "fetchOrders") /\ settled'.delivered /\ Ok(c.response)) =>
             /\ storeOrders' = c.response.orders
             /\ (req.op = "list" /\ resp = c.response) => storeOrders' = orders]_vars

C15_Witness ==
    /\ settled.kind = "fetchOrders" /\ settled.delivered
    /\ req.op = "list" /\ storeOrders = resp.orders
    /\ storeOrders = orders /\ Len(orders) = 2

\* ---------------------------------------------------------------- C16
\* C16: in every reachable state with at least one fetchAll or submit in
\* flight the busy flag is true.
C16_BusyWhileAnyCallInFlight == calls # EmptyBag => isLoading

\* ---------------------------------------------------------------- C17
\* C17: every exit of fetchAll and submit clears the busy flag: whenever no
\* call of the store is in flight the flag is false, and, every issued call
\* returning at last, a set flag is cleared at last.
C17_BusyClearedOnEveryExit ==
    /\ [](calls = EmptyBag => ~isLoading)
    /\ [][InFlight' < InFlight => ~isLoading']_vars
    /\ (isLoading ~> ~isLoading)

\* the flag is clear after a call that ended in its catch block
C17_Witness ==
    /\ settled.kind # "none" /\ ~settled.delivered
    /\ calls = EmptyBag /\ ~isLoading

\* ---------------------------------------------------------------- C18
FormSubmitsInFlight ==
    BagCardinality([c \in { d \in BagToSet(calls) : d.origin = "form" } |-> calls[c]])

\* C18: the Form starts no submission while a call of the store is
\* outstanding, so at most one submit issued by the Form is in flight.
C18_AtMostOneFormSubmitInFlight == FormSubmitsInFlight <= 1

\* ---------------------------------------------------------------- C19
\* the condition the claim gives for the values of the form
PositiveNumber(v) == v.k = "number" /\ v.n > 0

SubmissionAllowed(data) ==
    /\ Present(data.symbol) /\ Present(data.orderType) /\ Present(data.side)
    /\ data.quantity.k = "number" /\ data.quantity.n >= 1 * Hundredths
    /\ data.orderType \in {Limit, StopLimit} => PositiveNumber(data.price)
    /\ data.orderType = StopLimit => PositiveNumber(data.stopPrice)

\* the step is a submit attempt of the Form that had an effect: a call was
\* issued, or only the errors changed
CreateIssued == InFlight' > InFlight

SubmitAttempt == CreateIssued \/ (calls' = calls /\ errors' # errors)

\* C19: a submit attempt of the Form issues a Create call exactly if symbol,
\* orderType and side are present, quantity is at least 1, price is above 0
\* for Limit and Stop Limit, and stopPrice is above 0 for Stop Limit; a
\* value left in a field that is not shown is not looked at; a rejected
\* attempt changes neither the Client Store nor the Registry.
C19_FormIssuesCreateIffValid ==
    /\ [][SubmitAttempt =>
            /\ CreateIssued <=> SubmissionAllowed(fields)
            /\ CreateIssued =>
                  \E c \in BagToSet(calls') :
                     c.origin = "form" /\ c.stage = "sent" /\ c.body = Stringify(fields)
            /\ ~CreateIssued =>
                  (errors' # {} /\ UNCHANGED <<storeOrders, isLoading, calls, orders>>)]_vars
    /\ [](errors # {} => ~SubmissionAllowed(fields))

\* a Market order was issued although the hidden price field holds 0
C19_Witness ==
    \E c \in BagToSet(calls) :
       c.origin = "form" /\ c.body.orderType = Market /\ c.body.price = Num(0)

\* ---------------------------------------------------------------- C20
\* C20: when a submit the Form issued resolves with success, every field is
\* back at its default (NIFTY, Market, Buy, 1, no price, no stopPrice) and
\* the success message shows; when it resolves with failure, the failure
\* message shows and every field holds what it held.
C20_FormResetsOnSuccessOnly ==
    [][\A c \in BagToSet(calls) : (Returns(c, "submitOrder") /\ c.origin = "form") =>
          IF settled'.result = "true"
          THEN /\ fields' = Body(NIFTY, Market, Num(1 * Hundredths), Buy, Undef, Undef)
               /\ successMessage' = SubmittedMessage
          ELSE /\ fields' = fields
               /\ successMessage' = FailedMessage]_vars

\* a Stop Limit order went through and the form is back at its defaults
C20_Witness ==
    /\ settled.origin = "form" /\ settled.result = "true"
    /\ storeOrders # <<>> /\ Last(storeOrders).orderType = StopLimit
    /\ fields = defaultValues /\ successMessage = SubmittedMessage

\* ---------------------------------------------------------------- C21
\* the step is the Table's clear control: the local list changes and no
\* call is issued, answered or returned
Cleared == calls' = calls /\ storeOrders' # storeOrders

\* C21: the clear control empties the local list at once and touches
\* nothing else: no request is issued, the busy flag, the Form and the
\* Registry stay as they are; so the first fetchAll that succeeds on the
\* emptied list brings back every order of the List answer.
C21_ClearEmptiesLocalListOnly ==
    [][/\ Cleared =>
             /\ storeOrders' = <<>>
             /\ UNCHANGED <<isLoading, settled, mounted, fields, errors, successMessage,
                            timers>>
             /\ UNCHANGED serverVars
       /\ \A c \in BagToSet(calls) :
             ( /\ Returns(c, "fetchOrders") /\ settled'.delivered /\ Ok(c.response)
               /\ storeOrders = <<>> )
                => /\ storeOrders' = c.response.orders
                   /\ (req.op = "list" /\ resp = c.response) => storeOrders' = orders]_vars

\* the last call to return was a submit that appended its order, nothing
\* is under way, and the list is empty while the Registry holds the order
C21_Witness ==
    /\ settled.kind = "submitOrder" /\ settled.result = "true"
    /\ calls = EmptyBag /\ ~isLoading
    /\ storeOrders = <<>> /\ orders # <<>>

\* ---------------------------------------------------------------- C22
\* the Create requests on their way to the server
SentSubmits(bag) ==
    BagCardinality([c \in { d \in BagToSet(bag) : d.kind = "submitOrder" /\ d.stage = "sent" }
                       |-> bag[c]])

\* the orders of the Registry and those the pending Create requests can add
OrdersInSight(list, bag) == Len(list) + SentSubmits(bag)

\* C22: one submit invocation issues exactly one Create request and none
\* after it has failed: the orders in the Registry plus the Create requests
\* under way grow only when submit is invoked, by one, and every order the
\* Registry gains uses up one request; a return of a call adds none.
C22_OneCreatePerSubmit ==
    [][/\ OrdersInSight(orders', calls') > OrdersInSight(orders, calls) =>
             /\ BagCardinality(calls') = InFlight + 1
             /\ SentSubmits(calls') = SentSubmits(calls) + 1
             /\ orders' = orders
       /\ Len(orders') > Len(orders) =>
             /\ Len(orders') = Len(orders) + 1
             /\ SentSubmits(calls') = SentSubmits(calls) - 1
       /\ BagCardinality(calls') < InFlight =>
             /\ SentSubmits(calls') <= SentSubmits(calls)
             /\ orders' = orders]_vars

\* a submit answered 400 has returned false and no request is left
C22_Witness ==
    /\ settled.kind = "submitOrder" /\ settled.delivered /\ settled.result = "false"
    /\ req.op = "create" /\ resp.status = 400
    /\ calls = EmptyBag

\* ---------------------------------------------------------------- C23
Range(list) == { list[i] : i \in 1..Len(list) }

\* C23: of a fetchAll and a submit the one that resolves later decides the
\* local list: a fetchAll that resolves after a successful submit leaves
\* exactly the orders of its List answer, whether or not that answer holds
\* the order the submit appended; a submit that resolves after a successful
\* fetchAll leaves the list that fetch left with its own order at the tail.
C23_LaterResolvingCallWins ==
    [][\A c \in BagToSet(calls) :
          /\ ( /\ Returns(c, "fetchOrders") /\ settled'.delivered
               /\ settled.kind = "submitOrder" /\ settled.result = "true" )
                => storeOrders' = c.response.orders
          /\ ( /\ Returns(c, "submitOrder") /\ settled'.result = "true"
               /\ settled.kind = "fetchOrders" /\ settled.delivered )
                => /\ storeOrders' = Append(storeOrders, c.response.order)
                   /\ SubSeq(storeOrders', 1, Len(storeOrders)) = storeOrders]_vars

\* a submit has resolved and appended its order while a fetchAll answered
\* before that order was created is still to resolve
C23_Witness ==
    /\ settled.kind = "submitOrder" /\ settled.result = "true"
    /\ storeOrders # <<>>
    /\ \E c \in BagToSet(calls) :
          /\ c.kind = "fetchOrders" /\ c.stage = "answered"
          /\ Last(storeOrders) \notin Range(c.response.orders)
          /\ Last(storeOrders) \in Range(orders)

\* ---------------------------------------------------------------- C25
NoTwoShareAnId(list) ==
    \A i, j \in 1..Len(list) : i # j => list[i].id # list[j].id

\* C25: the local list holds no two orders with the same id, however
\* fetchAll and submit overlap; stated for the states in which the ids of
\* the Registry are all distinct, so that a repeated id in the local list
\* comes from the Client Store itself.
C25_LocalIdsDistinct == NoTwoShareAnId(orders) => NoTwoShareAnId(storeOrders)

\* ---------------------------------------------------------------- C26
\* C26: the order a successful submit appended stays in the local list
\* until it is cleared: no fetchAll that resolves afterwards removes it.
\* Stated for the fetchAll that resolves next after the submit, the
\* appended order still being the last of the list.
C26_AppendedOrderSurvivesFetch ==
    [][\A c \in BagToSet(calls) :
          ( /\ Returns(c, "fetchOrders")
            /\ settled.kind = "submitOrder" /\ settled.result = "true"
            /\ storeOrders # <<>> )
             => Last(storeOrders) \in Range(storeOrders')]_vars

\* ---------------------------------------------------------------- C27
\* list holds first before second, at some pair of positions
Precedes(list, first, second) ==
    \E p, q \in 1..Len(list) : p < q /\ list[p] = first /\ list[q] = second

\* C27: the orders of the local list appear in the relative order the
\* Registry holds them in: of two different orders of the local list that
\* the Registry holds, the one that comes first locally comes first there.
C27_LocalOrderFollowsRegistry ==
    \A i, j \in 1..Len(storeOrders) :
        ( /\ i < j /\ storeOrders[i] # storeOrders[j]
          /\ storeOrders[i] \in Range(orders) /\ storeOrders[j] \in Range(orders) )
         => Precedes(orders, storeOrders[i], storeOrders[j])

\* ---------------------------------------------------------------- C28
\* the step is the callback of an auto-clear timer of the Form on screen
TimerFired == timers' = timers - 1 /\ calls' = calls

\* C28: the auto-clear timer of a successful submit removes the success
\* indicator of that submit only: when it fires, a failure indicator a later
\* submit has displayed stays, and so does the success indicator of a later
\* submit whose own timer is still to fire.
C28_TimerClearsOwnIndicatorOnly ==
    [][TimerFired =>
          /\ successMessage = FailedMessage => successMessage' = FailedMessage
          /\ (successMessage = SubmittedMessage /\ timers > 1)
                => successMessage' = SubmittedMessage]_vars

\* ---------------------------------------------------------------- C29
\* C29: every Create request the Form issues for a Market order carries
\* no price and no stopPrice, and every one for a Limit order no stopPrice,
\* whatever was typed into those fields under another order type.
C29_HiddenFieldsNotSent ==
    \A c \in BagToSet(calls) :
        (c.kind = "submitOrder" /\ c.origin = "form") =>
            /\ c.body.orderType = Market =>
                  (c.body.price = Undef /\ c.body.stopPrice = Undef)
            /\ c.body.orderType = Limit => c.body.stopPrice = Undef

\* ---------------------------------------------------------------- C24
\* C24: in every reachable state every order of the local list is an order
\* the Registry holds at that moment, whatever the interleaving of the
\* Client Store's calls with creates and clears at the server.
C24_LocalListWithinRegistry ==
    \A i \in 1..Len(storeOrders) : storeOrders[i] \in Range(orders)

\* ---------------------------------------------------------------- C30
\* C30 as stated: the create check covers presence only: a request whose
\* body contains symbol, orderType, quantity and side is answered 201
\* whatever their values, and 400 is returned only when one of them is
\* absent.
C30_AcceptedIffFourFieldsPresent ==
    req.op = "create" =>
        /\ (\A f \in RequiredFields : req.body[f] # Undef) => resp.status = 201
        /\ resp.status = 400 => \E f \in RequiredFields : req.body[f] = Undef

\* the value is none of undefined, null, NaN, 0, "" and false
NotFalsy(v) ==
    /\ v.k \notin {"undefined", "null", "NaN"}
    /\ v # Num(0) /\ v # Str("") /\ v # Bool(FALSE)

\* C30 amended: a create request is answered 201 exactly if symbol,
\* orderType, quantity and side are all present and not falsy, and 400
\* otherwise: a quantity of 0 or an empty symbol is rejected like an absent
\* one; nothing else about the values is checked.
C30_AcceptedIffFourFieldsNotFalsy ==
    req.op = "create" =>
        /\ resp.status \in {201, 400}
        /\ resp.status = 201 <=> \A f \in RequiredFields : NotFalsy(req.body[f])

\* a request with quantity 0 and the three other fields was answered 400
C30_Witness ==
    /\ req.op = "create"
    /\ req.body.quantity = Num(0)
    /\ req.body.symbol = NIFTY /\ req.body.orderType = Market /\ req.body.side = Buy
    /\ resp.status = 400
====
